---- MODULE Spec2Model ----
(***************************************************************************)
(* Conductor driver station backend: the start-up sequence of main(), the  *)
(* relay handshake, the shared State behind its RwLock, the telemetry      *)
(* thread and the shutdown path (src/src/main.rs).                         *)
(*                                                                         *)
(* Threads: "main" (main.rs:33-195), "telemetry" (the closure spawned at   *)
(* main.rs:129), "ws" (the webserver side started at main.rs:58: it        *)
(* delivers the relay endpoints and applies UI commands) and the input     *)
(* poll thread started by input::input_thread (main.rs:123). The port      *)
(* rendezvous of launch_webserver is the one of src/src/ws.rs:47-67: the   *)
(* "server" thread binds, sends its port and serves.                       *)
(***************************************************************************)
EXTENDS Integers, Sequences, FiniteSets, TLC

\* ------------------------------------------------------------------ bounds
\* Largest team number the protocol accepts (abstracted to a small value).
MaxTeam == 1
\* How many endpoints the webserver side may push on one handshake channel.
MaxDeliveries == 2

\* ------------------------------------------------------------------- state
VARIABLES
    linux,               \* cfg(target_os = "linux"): the secondary console relay exists
    hookInstalled,       \* RUST_BACKTRACE unset: panic::hook is installed (main.rs:37-39)
    persisted,           \* team number in the persisted configuration (confy)
    procState,           \* "running" | "exited" (event loop exit) | "aborted" (fatal panic)
    mainPc,              \* next statement of main()
    rxChan,              \* endpoints waiting in the primary handshake channel (tx -> rx)
    rxCount,             \* endpoints pushed on the primary channel so far
    stdoutChan,          \* endpoints waiting in the secondary channel (stdout_tx -> stdout_rx)
    stdoutCount,         \* endpoints pushed on the secondary channel so far
    addr,                \* main's local `addr`
    stdout_addr,         \* main's local `stdout_addr`
    relay_endpoint,      \* State: the endpoint bound by wire_stdout
    team,                \* State: ds.team_number()
    writer,              \* RwLock<State>: the thread holding the write guard, or "none"
    readers,             \* RwLock<State>: the threads holding a read guard
    poisoned,            \* RwLock<State>: a writer terminated while holding the guard
    keybindings_enabled, \* the boolean returned by keys::bind_keys
    inputStarted,        \* input::input_thread has been called
    jsInits,             \* how many times JS_STATE has been initialized
    devices,             \* JS_STATE: the attached input devices
    jsReaders,           \* RwLock of JS_STATE: the threads holding a read guard
    jsPoisoned,          \* RwLock of JS_STATE: its writer terminated while holding it
    tbPc,                \* next statement of the telemetry thread
    tb,                  \* the telemetry thread's locals: comms, code, sim, joysticks, voltage
    msg,                 \* the telemetry thread's `msg`
    seen,                \* what DsEngine and JS_STATE reported to the current cycle's reads
    telemetry,           \* the RobotStateUpdate passed to do_send in the current cycle
    emitted,             \* a RobotStateUpdate has been passed to do_send
    sent,                \* every other message passed to do_send, in order
    startupDs,           \* the team numbers main() has applied to DsEngine via update_ds
    srvPc,               \* next statement of the server thread of launch_webserver
    boundPort,           \* the port the server's listener is bound to
    portChan,            \* ports waiting in the port channel (port_tx -> port_rx)
    port,                \* main's local `port`
    rxOpen,              \* the sender `tx` of the primary handshake channel is alive
    stdoutOpen,          \* the sender `stdout_tx` of the secondary channel is alive
    wsCall               \* the team-number command the webserver side is applying

mainVars == <<mainPc, addr, stdout_addr, keybindings_enabled>>
envVars == <<linux, hookInstalled, persisted>>
chanVars == <<rxChan, rxCount, stdoutChan, stdoutCount>>
lockVars == <<writer, readers, poisoned>>
stateVars == <<relay_endpoint, team, startupDs>>
jsVars == <<inputStarted, jsInits, devices, jsReaders, jsPoisoned>>
tbVars == <<tbPc, tb, msg, seen, telemetry, emitted>>
launchVars == <<srvPc, boundPort, portChan, port>>
openVars == <<rxOpen, stdoutOpen>>
wsVars == <<wsCall>>

vars == <<envVars, procState, mainVars, chanVars, lockVars, stateVars, jsVars,
          tbVars, sent, launchVars, openVars, wsVars>>

\* ----------------------------------------------------------------- values
NoEndpoint == <<"none", 0>>
Primary(k) == <<"primary", k>>
Secondary(k) == <<"secondary", k>>

NoMsg == [kind |-> "none"]

\* bind("127.0.0.1:0") lets the system pick the port (ws.rs:57).
NoPort == 0
Ports == {49152, 49153}

\* What DsEngine can report to a read: connected, code started, mode, voltage
\* (in tenths of a volt).
DsReports ==
    { [connected |-> FALSE, code_started |-> FALSE, mode |-> "Normal", voltage |-> 0],
      [connected |-> TRUE, code_started |-> FALSE, mode |-> "Simulation", voltage |-> 121] }

Devices == {"js0"}

TeamCommands == (0 - 1) .. (MaxTeam + 1)
PersistedTeams == 0 .. (MaxTeam + 1)

NoLocals == [comms |-> FALSE, code |-> FALSE, sim |-> FALSE, joysticks |-> FALSE,
             voltage |-> 0]
NotSeen == [connected |-> FALSE, code_started |-> FALSE, mode |-> "Normal",
            voltage |-> 0, devices |-> {}]

Running == procState = "running"

\* ------------------------------------------------------------- the messages
\* Message::UpdateTeamNumber { team_number, from_backend } (main.rs:109-112)
UpdateTeamNumber(t, fromBackend) ==
    [kind |-> "UpdateTeamNumber", team_number |-> t, from_backend |-> fromBackend]

\* Message::Capabilities { backend_keybinds } (main.rs:118-120)
Capabilities(flag) == [kind |-> "Capabilities", backend_keybinds |-> flag]

\* SetAddr { addr } (main.rs:103)
SetAddr(a) == [kind |-> "SetAddr", addr |-> a]

\* Message::RobotStateUpdate { .. } built from the locals (main.rs:144-150)
\* (variant: comms and code exchanged)
RobotStateUpdateSwapped(l) ==
    [kind |-> "RobotStateUpdate", comms_alive |-> l.code, code_alive |-> l.comms,
     simulator |-> l.sim, joysticks |-> l.joysticks, voltage |-> l.voltage]

RobotStateUpdate(l) ==
    [kind |-> "RobotStateUpdate", comms_alive |-> l.comms, code_alive |-> l.code,
     simulator |-> l.sim, joysticks |-> l.joysticks, voltage |-> l.voltage]

\* addr.do_send(m): the message is handed to the endpoint's mailbox.
DoSend(to, m) == [to |-> to, m |-> m]

\* ------------------------------------------------------- State and its lock
\* State::update_ds(team_number): a team number outside the protocol's range is
\* rejected and leaves the state as it is.
ValidTeam(t) == t >= 0 /\ t <= MaxTeam
\* (variant: no validation)
UpdateDsNoCheck(cur, t) == t
\* (variant: the team number is validated and then not stored)
UpdateDsKeeps(cur, t) == cur
UpdateDs(cur, t) == IF ValidTeam(t) THEN t ELSE cur
\* What update_ds hands back to its caller, and how many times it forwards the
\* team number to DsEngine.
UpdateDsReply(t) == IF ValidTeam(t) THEN "ok" ELSE "rejected"
DsNotifications(t) == IF ValidTeam(t) THEN 1 ELSE 0

\* A team-number command in the hands of its handler: the number, what
\* update_ds handed back and how many times the call notified DsEngine.
NoCall == [t |-> 0, reply |-> "idle", notified |-> 0]

\* JoystickState::has_joysticks()
HasJoysticks(d) == d /= {}

\* (variant: a write guard is handed out while read guards are held)
CanWriteIgnoresReaders == writer = "none"
\* RwLock::write() can return: no guard of either kind is held.
CanWrite == writer = "none" /\ readers = {}
\* RwLock::read() can return: no write guard is held.
CanRead == writer = "none"

\* A panic on a thread other than main: with panic::hook installed the hook
\* reports it and ends the process, otherwise only that thread ends. A panic of
\* the main thread ends the process either way.

\* The process ends (exit or fatal panic): every thread is torn down with it, and
\* with the threads their locals, the guards they hold and the channels.
ThreadsTornDown ==
    /\ tbPc' = IF tbPc = "unstarted" THEN "unstarted" ELSE "ended"
    /\ tb' = NoLocals /\ msg' = NoMsg /\ seen' = NotSeen /\ telemetry' = NoMsg
    /\ UNCHANGED emitted
    /\ writer' = "none" /\ readers' = {}
    /\ jsReaders' = {} /\ devices' = {}
    /\ rxChan' = <<>> /\ stdoutChan' = <<>>
    /\ wsCall' = NoCall

\* The process ends as `how` ("exited" or "aborted"); the lock's poison flags are
\* left to the action.
ProcessEnds(how) ==
    /\ procState' = how
    /\ ThreadsTornDown
    /\ UNCHANGED <<envVars, launchVars, openVars,
                   mainVars, rxCount, stdoutCount, stateVars, inputStarted,
                   jsInits, sent>>

\* -------------------------------------------------------------------- Init
Init ==
    /\ linux \in BOOLEAN
    /\ hookInstalled \in BOOLEAN
    /\ persisted \in PersistedTeams
    /\ procState = "running"
    /\ mainPc = "launch_webserver"
    /\ srvPc = "unspawned" /\ boundPort = NoPort /\ portChan = <<>> /\ port = NoPort
    /\ rxOpen = TRUE /\ stdoutOpen = TRUE
    /\ wsCall = NoCall
    /\ rxChan = <<>> /\ rxCount = 0
    /\ stdoutChan = <<>> /\ stdoutCount = 0
    /\ addr = NoEndpoint /\ stdout_addr = NoEndpoint
    /\ relay_endpoint = NoEndpoint
    /\ team = 0
    /\ writer = "none" /\ readers = {} /\ poisoned = FALSE
    /\ keybindings_enabled = FALSE
    /\ inputStarted = FALSE /\ jsInits = 0 /\ devices = {}
    /\ jsReaders = {} /\ jsPoisoned = FALSE
    /\ tbPc = "unstarted" /\ tb = NoLocals /\ msg = NoMsg /\ seen = NotSeen
    /\ telemetry = NoMsg /\ emitted = FALSE
    /\ sent = <<>>
    /\ startupDs = <<>>

\* State::wire_stdout(addr): binds the relay endpoint; an endpoint already bound
\* is kept.
WireStdout(cur, a) == IF cur = NoEndpoint THEN a ELSE cur

\* ------------------------------------------------------------- main thread
\* main.rs:58 calls launch_webserver. ws.rs:48-50: the port channel is created
\* and the server thread is spawned.
MainLaunchWebserver ==
    /\ Running /\ mainPc = "launch_webserver"
    /\ srvPc' = "bind"
    /\ mainPc' = "recv_port"
    /\ UNCHANGED <<envVars, openVars, wsVars, procState, addr, stdout_addr, keybindings_enabled,
                   chanVars, lockVars, stateVars, jsVars, tbVars, sent, boundPort,
                   portChan, port>>

\* (variant: launch_webserver returns without waiting for the port)
MainRecvPortNoWait ==
    /\ Running /\ mainPc = "recv_port"
    /\ port' = IF portChan /= <<>> THEN Head(portChan) ELSE boundPort
    /\ portChan' = <<>>
    /\ mainPc' = "build_windows"
    /\ UNCHANGED <<envVars, openVars, wsVars, procState, addr, stdout_addr, keybindings_enabled,
                   chanVars, lockVars, stateVars, jsVars, tbVars, sent, srvPc,
                   boundPort>>

\* ws.rs:66  port_rx.recv().unwrap()  (blocks while the channel is empty and its
\* sender is alive); the value received is what launch_webserver returns.
MainRecvPort ==
    /\ Running /\ mainPc = "recv_port"
    /\ portChan /= <<>>
    /\ port' = Head(portChan)
    /\ portChan' = Tail(portChan)
    /\ mainPc' = "build_windows"
    /\ UNCHANGED <<envVars, openVars, wsVars, procState, addr, stdout_addr, keybindings_enabled,
                   chanVars, lockVars, stateVars, jsVars, tbVars, sent, srvPc,
                   boundPort>>

\* (variant: a receive that fails is ignored and launch_webserver returns)
MainRecvPortClosedIgnored ==
    /\ Running /\ mainPc = "recv_port"
    /\ portChan = <<>> /\ srvPc = "panicked"
    /\ mainPc' = "build_windows"
    /\ UNCHANGED <<envVars, openVars, wsVars, procState, addr, stdout_addr, keybindings_enabled,
                   chanVars, lockVars, stateVars, jsVars, tbVars, sent, launchVars>>

\* ws.rs:66  the server thread has ended without sending, which dropped port_tx:
\* recv() returns Err, unwrap() panics on the main thread and the process ends.
MainRecvPortClosed ==
    /\ Running /\ mainPc = "recv_port"
    /\ portChan = <<>> /\ srvPc = "panicked"
    /\ ProcessEnds("aborted")
    /\ UNCHANGED <<poisoned, jsPoisoned>>

\* main.rs:59-96  the port is printed and the windows are built on its URLs,
\* which is the last use of `port`; the port is not followed further.
MainBuildWindows ==
    /\ Running /\ mainPc = "build_windows"
    /\ port' = NoPort /\ boundPort' = NoPort
    /\ mainPc' = "recv_primary"
    /\ UNCHANGED <<envVars, openVars, wsVars, procState, addr, stdout_addr, keybindings_enabled,
                   chanVars, lockVars, stateVars, jsVars, tbVars, sent, srvPc,
                   portChan>>

\* main.rs:98  let addr = rx.recv().unwrap();  (blocks while the channel is empty
\* and its sender is alive)
\* (variant: the linux block main.rs:100-104 left out)
MainRecvPrimaryNoSecondary ==
    /\ Running /\ mainPc = "recv_primary"
    /\ rxChan /= <<>>
    /\ addr' = Head(rxChan)
    /\ rxChan' = Tail(rxChan)
    /\ mainPc' = "wire_lock"
    /\ UNCHANGED <<envVars, launchVars, openVars, wsVars,
                   procState, stdout_addr, keybindings_enabled, rxCount,
                   stdoutChan, stdoutCount, lockVars, stateVars, jsVars, tbVars, sent>>

\* (variant: drains the channel and keeps the last endpoint)
MainRecvPrimaryLast ==
    /\ Running /\ mainPc = "recv_primary"
    /\ rxChan /= <<>>
    /\ addr' = rxChan[Len(rxChan)]
    /\ rxChan' = <<>>
    /\ mainPc' = IF linux THEN "recv_secondary" ELSE "wire_lock"
    /\ UNCHANGED <<envVars, launchVars, openVars, wsVars,
                   procState, stdout_addr, keybindings_enabled, rxCount,
                   stdoutChan, stdoutCount, lockVars, stateVars, jsVars, tbVars, sent>>

\* (variant: the receive gives up on an empty channel and main() goes on
\* without an endpoint)
MainRecvPrimaryTimeout ==
    /\ Running /\ mainPc = "recv_primary"
    /\ IF rxChan /= <<>>
       THEN addr' = Head(rxChan) /\ rxChan' = Tail(rxChan)
       ELSE addr' = NoEndpoint /\ rxChan' = rxChan
    /\ mainPc' = IF linux THEN "recv_secondary" ELSE "wire_lock"
    /\ UNCHANGED <<envVars, launchVars, openVars, wsVars,
                   procState, stdout_addr, keybindings_enabled, rxCount,
                   stdoutChan, stdoutCount, lockVars, stateVars, jsVars, tbVars, sent>>

MainRecvPrimary ==
    /\ Running /\ mainPc = "recv_primary"
    /\ rxChan /= <<>>
    /\ addr' = Head(rxChan)
    /\ rxChan' = Tail(rxChan)
    /\ mainPc' = IF linux THEN "recv_secondary" ELSE "wire_lock"
    /\ UNCHANGED <<envVars, launchVars, openVars, wsVars,
                   procState, stdout_addr, keybindings_enabled, rxCount,
                   stdoutChan, stdoutCount, lockVars, stateVars, jsVars, tbVars, sent>>

\* (variant: a receive that fails is ignored and main() goes on)
MainRecvPrimaryClosedIgnored ==
    /\ Running /\ mainPc = "recv_primary"
    /\ rxChan = <<>> /\ ~rxOpen
    /\ mainPc' = IF linux THEN "recv_secondary" ELSE "wire_lock"
    /\ UNCHANGED <<envVars, launchVars, openVars, wsVars, procState, addr, stdout_addr,
                   keybindings_enabled, chanVars, lockVars, stateVars, jsVars, tbVars,
                   sent>>

\* main.rs:98  `tx` was dropped without a send: recv() returns Err, unwrap()
\* panics on the main thread and the process ends.
MainRecvPrimaryClosed ==
    /\ Running /\ mainPc = "recv_primary"
    /\ rxChan = <<>> /\ ~rxOpen
    /\ ProcessEnds("aborted")
    /\ UNCHANGED <<poisoned, jsPoisoned>>

\* main.rs:102  `stdout_tx` was dropped without a send (linux only).
MainRecvSecondaryClosed ==
    /\ Running /\ mainPc = "recv_secondary"
    /\ stdoutChan = <<>> /\ ~stdoutOpen
    /\ ProcessEnds("aborted")
    /\ UNCHANGED <<poisoned, jsPoisoned>>

\* main.rs:102  let stdout_addr = stdout_rx.recv().unwrap();  (linux only)
MainRecvSecondary ==
    /\ Running /\ mainPc = "recv_secondary"
    /\ stdoutChan /= <<>>
    /\ stdout_addr' = Head(stdoutChan)
    /\ stdoutChan' = Tail(stdoutChan)
    /\ mainPc' = "send_setaddr"
    /\ UNCHANGED <<envVars, launchVars, openVars, wsVars,
                   procState, addr, keybindings_enabled, rxChan, rxCount,
                   stdoutCount, lockVars, stateVars, jsVars, tbVars, sent>>

\* main.rs:103  addr.do_send(SetAddr { addr: stdout_addr });
MainSendSetAddr ==
    /\ Running /\ mainPc = "send_setaddr"
    /\ sent' = Append(sent, DoSend(addr, SetAddr(stdout_addr)))
    /\ mainPc' = "wire_lock"
    /\ UNCHANGED <<envVars, launchVars, openVars, wsVars,
                   procState, addr, stdout_addr, keybindings_enabled,
                   chanVars, lockVars, stateVars, jsVars, tbVars>>

\* state.write().unwrap() on the main thread (main.rs:106 and main.rs:113): the
\* guard is taken when no other guard is held; a poisoned lock makes unwrap()
\* panic, and a panic of the main thread ends the process.
MainWrite(pc, next) ==
    /\ Running /\ mainPc = pc
    /\ CanWrite
    /\ IF poisoned
       THEN ProcessEnds("aborted")
       ELSE /\ writer' = "main"
            /\ mainPc' = next
            /\ UNCHANGED <<envVars, launchVars, openVars, wsVars, procState, addr, stdout_addr,
                           keybindings_enabled, chanVars, readers, stateVars,
                           inputStarted, jsInits, devices, jsReaders, tbVars, sent>>
    /\ UNCHANGED <<poisoned, jsPoisoned>>

\* main.rs:106  state.write().unwrap() ...
MainWireLock == MainWrite("wire_lock", "wire_stdout")

\* main.rs:106-108  ... .wire_stdout(addr.clone()); the guard is dropped at the end
\* of the statement; then `if cfg.team_number != 0`.
\* (variant: without the `!= 0` test of main.rs:108)
MainWireStdoutNoCheck ==
    /\ Running /\ mainPc = "wire_stdout"
    /\ relay_endpoint' = WireStdout(relay_endpoint, addr)
    /\ writer' = "none"
    /\ mainPc' = "send_team"
    /\ UNCHANGED <<envVars, launchVars, openVars, wsVars,
                   procState, addr, stdout_addr, keybindings_enabled,
                   chanVars, readers, poisoned, team, startupDs, jsVars, tbVars, sent>>

MainWireStdout ==
    /\ Running /\ mainPc = "wire_stdout"
    /\ relay_endpoint' = WireStdout(relay_endpoint, addr)
    /\ writer' = "none"
    /\ mainPc' = IF persisted /= 0 THEN "send_team" ELSE "bind_keys"
    /\ UNCHANGED <<envVars, launchVars, openVars, wsVars,
                   procState, addr, stdout_addr, keybindings_enabled,
                   chanVars, readers, poisoned, team, startupDs, jsVars, tbVars, sent>>

\* main.rs:109-112  addr.do_send(Message::UpdateTeamNumber { .. });
MainSendTeam ==
    /\ Running /\ mainPc = "send_team"
    /\ sent' = Append(sent, DoSend(addr, UpdateTeamNumber(persisted, TRUE)))
    /\ mainPc' = "ds_lock"
    /\ UNCHANGED <<envVars, launchVars, openVars, wsVars,
                   procState, addr, stdout_addr, keybindings_enabled,
                   chanVars, lockVars, stateVars, jsVars, tbVars>>

\* main.rs:113  state.write().unwrap() ...
MainDsLock == MainWrite("ds_lock", "update_ds")

\* main.rs:113  ... .update_ds(cfg.team_number); the guard is dropped at the end of
\* the statement.
MainUpdateDs ==
    /\ Running /\ mainPc = "update_ds"
    /\ team' = UpdateDs(team, persisted)
    /\ startupDs' = IF ValidTeam(persisted) THEN Append(startupDs, persisted)
                    ELSE startupDs
    /\ writer' = "none"
    /\ mainPc' = "bind_keys"
    /\ UNCHANGED <<envVars, launchVars, openVars, wsVars,
                   procState, addr, stdout_addr, keybindings_enabled,
                   chanVars, readers, poisoned, relay_endpoint, jsVars, tbVars, sent>>

\* (variant: the threads are started before Capabilities is sent, which is left
\* out)
MainBindKeysSkipsCaps ==
    /\ Running /\ mainPc = "bind_keys"
    /\ \E ok \in BOOLEAN : keybindings_enabled' = ok
    /\ mainPc' = "input_thread"
    /\ UNCHANGED <<envVars, launchVars, openVars, wsVars,
                   procState, addr, stdout_addr, chanVars, lockVars,
                   stateVars, jsVars, tbVars, sent>>

\* main.rs:117  let keybindings_enabled = keys::bind_keys(state.clone(), addr.clone());
\* the installation succeeds or not, depending on the platform.
MainBindKeys ==
    /\ Running /\ mainPc = "bind_keys"
    /\ \E ok \in BOOLEAN : keybindings_enabled' = ok
    /\ mainPc' = "send_caps"
    /\ UNCHANGED <<envVars, launchVars, openVars, wsVars,
                   procState, addr, stdout_addr, chanVars, lockVars,
                   stateVars, jsVars, tbVars, sent>>

\* main.rs:118-120  addr.do_send(Message::Capabilities { backend_keybinds });
\* (variant: the flag sent is not the one bind_keys returned)
MainSendCapsAlwaysTrue ==
    /\ Running /\ mainPc = "send_caps"
    /\ sent' = Append(sent, DoSend(addr, Capabilities(TRUE)))
    /\ mainPc' = "input_thread"
    /\ UNCHANGED <<envVars, launchVars, openVars, wsVars,
                   procState, addr, stdout_addr, keybindings_enabled,
                   chanVars, lockVars, stateVars, jsVars, tbVars>>

MainSendCaps ==
    /\ Running /\ mainPc = "send_caps"
    /\ sent' = Append(sent, DoSend(addr, Capabilities(keybindings_enabled)))
    /\ mainPc' = "input_thread"
    /\ UNCHANGED <<envVars, launchVars, openVars, wsVars,
                   procState, addr, stdout_addr, keybindings_enabled,
                   chanVars, lockVars, stateVars, jsVars, tbVars>>

\* main.rs:123  input::input_thread(addr.clone());  JS_STATE is initialized before
\* the call returns, and the poll thread is started.
MainInputThread ==
    /\ Running /\ mainPc = "input_thread"
    /\ inputStarted' = TRUE
    /\ jsInits' = jsInits + 1
    /\ mainPc' = "spawn_telemetry"
    /\ UNCHANGED <<envVars, launchVars, openVars, wsVars,
                   procState, addr, stdout_addr, keybindings_enabled,
                   chanVars, lockVars, stateVars, devices, jsReaders, jsPoisoned,
                   tbVars, sent>>

\* main.rs:126-129  thread::spawn(move || loop { .. });
\* (variant: the thread may be spawned before input_thread is called)
MainSpawnTelemetryEarly ==
    /\ Running /\ mainPc \in {"input_thread", "spawn_telemetry"}
    /\ tbPc = "unstarted"
    /\ tbPc' = "state_read"
    /\ mainPc' = IF mainPc = "spawn_telemetry" THEN "event_loop" ELSE mainPc
    /\ UNCHANGED <<envVars, launchVars, openVars, wsVars,
                   procState, addr, stdout_addr, keybindings_enabled,
                   chanVars, lockVars, stateVars, jsVars, tb, msg, seen, telemetry,
                   emitted, sent>>

MainSpawnTelemetry ==
    /\ Running /\ mainPc = "spawn_telemetry"
    /\ tbPc' = "state_read"
    /\ mainPc' = "event_loop"
    /\ UNCHANGED <<envVars, launchVars, openVars, wsVars,
                   procState, addr, stdout_addr, keybindings_enabled,
                   chanVars, lockVars, stateVars, jsVars, tb, msg, seen, telemetry,
                   emitted, sent>>

\* main.rs:159-187  event_loop.run(..): CloseRequested for the main window sets
\* ControlFlow::Exit. EventLoop::run has return type `!`: on Exit it ends the
\* process from inside the call, so the statements after it (main.rs:189-194,
\* the read of the team number and confy::store) are never executed.
MainCloseRequested ==
    /\ Running /\ mainPc = "event_loop"
    /\ ProcessEnds("exited")
    /\ UNCHANGED <<poisoned, jsPoisoned>>

Main ==
    \/ MainLaunchWebserver \/ MainRecvPort \/ MainRecvPortClosed \/ MainBuildWindows
    \/ MainRecvPrimary \/ MainRecvPrimaryClosed
    \/ MainRecvSecondary \/ MainRecvSecondaryClosed \/ MainSendSetAddr
    \/ MainWireLock \/ MainWireStdout
    \/ MainSendTeam \/ MainDsLock \/ MainUpdateDs
    \/ MainBindKeys \/ MainSendCaps
    \/ MainInputThread \/ MainSpawnTelemetry
    \/ MainCloseRequested

\* ------------------------------------------------------- telemetry thread
\* unwrap() on a failed result panics: the thread's guards are dropped while it
\* unwinds (a read guard does not poison the lock) and the thread ends.
TbPanic ==
    /\ IF hookInstalled
       THEN ProcessEnds("aborted")
       ELSE /\ tbPc' = "panicked"
            /\ readers' = readers \ {"telemetry"}
            /\ jsReaders' = jsReaders \ {"telemetry"}
            /\ tb' = NoLocals /\ seen' = NotSeen
            /\ UNCHANGED <<envVars, launchVars, openVars, wsVars,
                           procState, mainVars, chanVars, writer, stateVars,
                           inputStarted, jsInits, devices, msg, telemetry, emitted, sent>>
    /\ UNCHANGED <<poisoned, jsPoisoned>>

\* (variant: the read guard is a temporary, dropped before the fields are read)
TbStateReadTemporary ==
    /\ Running /\ tbPc = "state_read"
    /\ CanRead
    /\ IF poisoned
       THEN TbPanic
       ELSE /\ tbPc' = "ds_read"
            /\ UNCHANGED <<envVars, launchVars, openVars, wsVars,
                           procState, mainVars, chanVars, lockVars,
                           stateVars, jsVars, tb, msg, seen, telemetry, emitted, sent>>

\* main.rs:131  let state = state.read().unwrap();
TbStateRead ==
    /\ Running /\ tbPc = "state_read"
    /\ CanRead
    /\ IF poisoned
       THEN TbPanic
       ELSE /\ readers' = readers \cup {"telemetry"}
            /\ tbPc' = "ds_read"
            /\ UNCHANGED <<envVars, launchVars, openVars, wsVars,
                           procState, mainVars, chanVars, writer, poisoned,
                           stateVars, jsVars, tb, msg, seen, telemetry, emitted, sent>>

\* main.rs:132-135  comms, code and sim, each read from DsEngine as it reports at
\* that moment.
TbDsRead ==
    /\ Running /\ tbPc = "ds_read"
    /\ \E r1 \in DsReports, r2 \in DsReports, r3 \in DsReports :
          /\ tb' = [tb EXCEPT !.comms = r1.connected, !.code = r2.code_started,
                              !.sim = (r3.mode = "Simulation")]
          /\ seen' = [seen EXCEPT !.connected = r1.connected,
                                  !.code_started = r2.code_started,
                                  !.mode = r3.mode]
    /\ tbPc' = "js_get"
    /\ UNCHANGED <<envVars, launchVars, openVars, wsVars,
                   procState, mainVars, chanVars, lockVars, stateVars,
                   jsVars, msg, telemetry, emitted, sent>>

\* main.rs:136-138  input::JS_STATE.get().unwrap()
TbJsGet ==
    /\ Running /\ tbPc = "js_get"
    /\ IF jsInits = 0
       THEN TbPanic
       ELSE /\ tbPc' = "js_read"
            /\ UNCHANGED <<envVars, launchVars, openVars, wsVars,
                           procState, mainVars, chanVars, lockVars,
                           stateVars, jsVars, tb, msg, seen, telemetry, emitted, sent>>

\* main.rs:139-140  .read().unwrap()
TbJsRead ==
    /\ Running /\ tbPc = "js_read"
    /\ IF jsPoisoned
       THEN TbPanic
       ELSE /\ jsReaders' = jsReaders \cup {"telemetry"}
            /\ tbPc' = "has_joysticks"
            /\ UNCHANGED <<envVars, launchVars, openVars, wsVars,
                           procState, mainVars, chanVars, lockVars,
                           stateVars, inputStarted, jsInits, devices, jsPoisoned,
                           tb, msg, seen, telemetry, emitted, sent>>

\* main.rs:141  .has_joysticks(); the guard on JS_STATE is a temporary, dropped at
\* the end of the `let joysticks` statement.
TbHasJoysticks ==
    /\ Running /\ tbPc = "has_joysticks"
    /\ tb' = [tb EXCEPT !.joysticks = HasJoysticks(devices)]
    /\ seen' = [seen EXCEPT !.devices = devices]
    /\ jsReaders' = jsReaders \ {"telemetry"}
    /\ tbPc' = "voltage"
    /\ UNCHANGED <<envVars, launchVars, openVars, wsVars,
                   procState, mainVars, chanVars, lockVars, stateVars,
                   inputStarted, jsInits, devices, jsPoisoned, msg, telemetry,
                   emitted, sent>>

\* main.rs:142  let voltage = ds.battery_voltage();
TbVoltage ==
    /\ Running /\ tbPc = "voltage"
    /\ \E r \in DsReports :
          /\ tb' = [tb EXCEPT !.voltage = r.voltage]
          /\ seen' = [seen EXCEPT !.voltage = r.voltage]
    /\ tbPc' = "build"
    /\ UNCHANGED <<envVars, launchVars, openVars, wsVars,
                   procState, mainVars, chanVars, lockVars, stateVars,
                   jsVars, msg, telemetry, emitted, sent>>

\* main.rs:144-151  the block's value is the message; its end drops the read
\* guard on State.
\* (variant: the read guard outlives the block)
TbBuildKeepsGuard ==
    /\ Running /\ tbPc = "build"
    /\ msg' = RobotStateUpdate(tb)
    /\ tb' = NoLocals
    /\ tbPc' = "send"
    /\ UNCHANGED <<envVars, launchVars, openVars, wsVars,
                   procState, mainVars, chanVars, lockVars, stateVars,
                   jsVars, seen, telemetry, emitted, sent>>

TbBuild ==
    /\ Running /\ tbPc = "build"
    /\ msg' = RobotStateUpdate(tb)
    /\ tb' = NoLocals
    /\ readers' = readers \ {"telemetry"}
    /\ tbPc' = "send"
    /\ UNCHANGED <<envVars, launchVars, openVars, wsVars,
                   procState, mainVars, chanVars, writer, poisoned,
                   stateVars, jsVars, seen, telemetry, emitted, sent>>

\* (variant: the loop goes round without the sleep of main.rs:154)
TbSendNoSleep ==
    /\ Running /\ tbPc = "send"
    /\ telemetry' = DoSend(addr, msg)
    /\ emitted' = TRUE
    /\ msg' = NoMsg /\ seen' = NotSeen
    /\ tbPc' = "state_read"
    /\ UNCHANGED <<envVars, launchVars, openVars, wsVars,
                   procState, mainVars, chanVars, lockVars, stateVars,
                   jsVars, tb, sent>>

\* main.rs:153  addr.do_send(msg);
TbSend ==
    /\ Running /\ tbPc = "send"
    /\ telemetry' = DoSend(addr, msg)
    /\ emitted' = TRUE
    /\ msg' = NoMsg
    /\ tbPc' = "sleep"
    /\ UNCHANGED <<envVars, launchVars, openVars, wsVars,
                   procState, mainVars, chanVars, lockVars, stateVars,
                   jsVars, tb, seen, sent>>

\* main.rs:154  thread::sleep(Duration::from_millis(50)); then the next iteration,
\* whose observations start afresh.
TbSleep ==
    /\ Running /\ tbPc = "sleep"
    /\ seen' = NotSeen /\ telemetry' = NoMsg
    /\ tbPc' = "state_read"
    /\ UNCHANGED <<envVars, launchVars, openVars, wsVars,
                   procState, mainVars, chanVars, lockVars, stateVars,
                   jsVars, tb, msg, emitted, sent>>

Telemetry ==
    \/ TbStateRead \/ TbDsRead \/ TbJsGet \/ TbJsRead \/ TbHasJoysticks
    \/ TbVoltage \/ TbBuild \/ TbSend \/ TbSleep

\* ------------------------------------- server thread of launch_webserver
\* ws.rs:51-58  HttpServer::new(..).bind("127.0.0.1:0").unwrap(): the listener is
\* bound to a port the system picks.
SrvBind ==
    /\ Running /\ srvPc = "bind"
    /\ \E p \in Ports : boundPort' = p
    /\ srvPc' = "send_port"
    /\ UNCHANGED <<envVars, openVars, wsVars, procState, mainVars, chanVars, lockVars,
                   stateVars, jsVars, tbVars, sent, portChan, port>>

\* ws.rs:57-58  bind fails and unwrap() panics on the server thread, which drops
\* port_tx as it unwinds.
SrvBindFails ==
    /\ Running /\ srvPc = "bind"
    /\ IF hookInstalled
       THEN ProcessEnds("aborted")
       ELSE /\ srvPc' = "panicked"
            /\ UNCHANGED <<envVars, openVars, wsVars, procState, mainVars, chanVars, writer,
                           readers, stateVars, inputStarted, jsInits, devices,
                           jsReaders, tbVars, sent, boundPort, portChan, port>>
    /\ UNCHANGED <<poisoned, jsPoisoned>>

\* ws.rs:60-63  let port = server.addrs().first().unwrap().port();
\* port_tx.send(port).unwrap(); and the thread enters server.run().
SrvSendPort ==
    /\ Running /\ srvPc = "send_port"
    /\ portChan' = Append(portChan, boundPort)
    /\ srvPc' = "run"
    /\ UNCHANGED <<envVars, openVars, wsVars, procState, mainVars, chanVars, lockVars,
                   stateVars, jsVars, tbVars, sent, boundPort, port>>

Srv == SrvBind \/ SrvBindFails \/ SrvSendPort

\* --------------------------------------------------- webserver side ("ws")
\* The senders `tx` and `stdout_tx` were moved into the webserver at main.rs:58.
\* The webserver side lets go of `tx` without having sent on it. (A sender
\* dropped after its send goes unnoticed: main() receives once per channel.)
WsDropPrimary ==
    /\ Running /\ srvPc = "run"
    /\ rxOpen /\ rxCount = 0
    /\ rxOpen' = FALSE
    /\ UNCHANGED <<envVars, launchVars, wsVars, procState, mainVars, chanVars, lockVars,
                   stateVars, jsVars, tbVars, sent, stdoutOpen>>

WsDropSecondary ==
    /\ Running /\ srvPc = "run" /\ linux
    /\ stdoutOpen /\ stdoutCount = 0
    /\ stdoutOpen' = FALSE
    /\ UNCHANGED <<envVars, launchVars, wsVars, procState, mainVars, chanVars, lockVars,
                   stateVars, jsVars, tbVars, sent, rxOpen>>

\* The relay component pushes its endpoint on the handshake channel (tx.send).
WsDeliverPrimary ==
    /\ Running /\ srvPc = "run" /\ rxOpen
    /\ rxCount < MaxDeliveries
    /\ rxChan' = Append(rxChan, Primary(rxCount + 1))
    /\ rxCount' = rxCount + 1
    /\ UNCHANGED <<envVars, launchVars, openVars, wsVars,
                   procState, mainVars, stdoutChan, stdoutCount, lockVars,
                   stateVars, jsVars, tbVars, sent>>

\* The console relay, which exists on linux only, pushes its endpoint
\* (stdout_tx.send).
WsDeliverSecondary ==
    /\ Running /\ srvPc = "run" /\ linux /\ stdoutOpen
    /\ stdoutCount < MaxDeliveries
    /\ stdoutChan' = Append(stdoutChan, Secondary(stdoutCount + 1))
    /\ stdoutCount' = stdoutCount + 1
    /\ UNCHANGED <<envVars, launchVars, openVars, wsVars,
                   procState, mainVars, rxChan, rxCount, lockVars,
                   stateVars, jsVars, tbVars, sent>>

\* A UI command UpdateTeamNumber{t, from_backend = false} reaches the handler,
\* which takes the write guard on State and applies the command with update_ds;
\* update_ds hands back its result. The UI is connected once the relay endpoint
\* exists. (No other thread can look at State between the two, so taking the
\* guard and applying the command are one step.)
WsCommandApply ==
    /\ Running
    /\ rxCount >= 1
    /\ CanWrite /\ ~poisoned
    /\ writer' = "ws"
    /\ \E t \in TeamCommands :
          /\ team' = UpdateDs(team, t)
          /\ wsCall' = [t |-> t, reply |-> UpdateDsReply(t),
                        notified |-> DsNotifications(t)]
    /\ UNCHANGED <<envVars, launchVars, openVars,
                   procState, mainVars, chanVars, readers, poisoned,
                   relay_endpoint, startupDs, jsVars, tbVars, sent>>

\* The statement ends: the guard is dropped and the handler returns.
WsCommandReturn ==
    /\ Running /\ writer = "ws"
    /\ writer' = "none"
    /\ wsCall' = NoCall
    /\ UNCHANGED <<envVars, launchVars, openVars,
                   procState, mainVars, chanVars, readers, poisoned,
                   stateVars, jsVars, tbVars, sent>>

\* The handler's thread terminates while it holds the write guard: the lock is
\* poisoned.
WsCommandPanic ==
    /\ Running /\ writer = "ws"
    /\ poisoned' = TRUE
    /\ IF hookInstalled
       THEN ProcessEnds("aborted")
       ELSE /\ writer' = "none"
            /\ wsCall' = NoCall
            /\ UNCHANGED <<envVars, launchVars, openVars,
                           procState, mainVars, chanVars, readers, stateVars,
                           inputStarted, jsInits, devices, jsReaders, tbVars, sent>>
    /\ UNCHANGED jsPoisoned

Ws ==
    \/ WsDeliverPrimary \/ WsDeliverSecondary
    \/ WsDropPrimary \/ WsDropSecondary
    \/ WsCommandApply \/ WsCommandReturn \/ WsCommandPanic

\* ------------------------------------------------------- input poll thread
\* The poll loop takes the write guard on JS_STATE, stores the devices it found
\* and drops the guard.
PollDevices ==
    /\ Running /\ inputStarted
    /\ jsReaders = {} /\ ~jsPoisoned
    /\ \E d \in SUBSET Devices : d /= devices /\ devices' = d
    /\ UNCHANGED <<envVars, launchVars, openVars, wsVars,
                   procState, mainVars, chanVars, lockVars, stateVars,
                   inputStarted, jsInits, jsReaders, jsPoisoned, tbVars, sent>>

\* The poll thread terminates while it holds the write guard on JS_STATE.
PollPanic ==
    /\ Running /\ inputStarted
    /\ jsReaders = {} /\ ~jsPoisoned
    /\ jsPoisoned' = TRUE
    /\ IF hookInstalled
       THEN ProcessEnds("aborted")
       ELSE UNCHANGED <<envVars, launchVars, openVars, wsVars,
                        procState, mainVars, chanVars, writer, readers,
                        stateVars, inputStarted, jsInits, devices, jsReaders, tbVars,
                        sent>>
    /\ UNCHANGED poisoned

Input == PollDevices \/ PollPanic

\* ----------------------------------------------------- key-binding handlers
\* main.rs:117  keys::bind_keys(state.clone(), addr.clone()) hands the handlers a
\* clone of the State lock. A handler that fires takes a read guard on State,
\* looks at it and drops the guard. Handlers exist once bind_keys has installed
\* them.
KeysInstalled ==
    /\ keybindings_enabled
    /\ mainPc \in {"send_caps", "input_thread", "spawn_telemetry", "event_loop"}

KeyHandlerRead ==
    /\ Running /\ KeysInstalled
    /\ "keys" \notin readers
    /\ CanRead /\ ~poisoned
    /\ readers' = readers \cup {"keys"}
    /\ UNCHANGED <<envVars, launchVars, openVars, wsVars,
                   procState, mainVars, chanVars, writer, poisoned,
                   stateVars, jsVars, tbVars, sent>>

KeyHandlerRelease ==
    /\ Running /\ "keys" \in readers
    /\ readers' = readers \ {"keys"}
    /\ UNCHANGED <<envVars, launchVars, openVars, wsVars,
                   procState, mainVars, chanVars, writer, poisoned,
                   stateVars, jsVars, tbVars, sent>>

Keys == KeyHandlerRead \/ KeyHandlerRelease

\* -------------------------------------------------------------------- Spec
Next == Main \/ Srv \/ Telemetry \/ Ws \/ Input \/ Keys

Spec == Init /\ [][Next]_vars

\* Fair scheduling of the telemetry thread: a runnable thread is scheduled
\* (WF), a thread waiting for the read guard gets it if the lock is free again
\* and again (SF), and a command handler that holds the write guard goes on to
\* the end of its statement, unless it panics.
FairSpec ==
    /\ Spec
    /\ WF_vars(Telemetry)
    /\ SF_vars(TbStateRead)
    /\ WF_vars(WsCommandReturn)

\* ------------------------------------------------------ reading the state
\* The statements of main() in program order, and whether main() has executed
\* the statement `pc`.
MainOrder ==
    <<"launch_webserver", "recv_port", "build_windows",
      "recv_primary", "recv_secondary", "send_setaddr", "wire_lock", "wire_stdout",
      "send_team", "ds_lock", "update_ds", "bind_keys", "send_caps", "input_thread",
      "spawn_telemetry", "event_loop">>
Pos(pc) == CHOOSE i \in 1 .. Len(MainOrder) : MainOrder[i] = pc
Executed(pc) == Pos(mainPc) > Pos(pc)

\* The positions in `sent` of the messages of kind k.
SentOfKind(k) == {i \in 1 .. Len(sent) : sent[i].m.kind = k}

\* Both expected handshakes have been received by main().
HandshakesReceived ==
    /\ addr /= NoEndpoint
    /\ linux => stdout_addr /= NoEndpoint

\* ------------------------------------------------------------------ claims

\* C1: no Message is sent, and none of bind_keys, input_thread and the telemetry
\* thread is started, before main() has received the primary endpoint and, on
\* linux, the secondary endpoint as well.
StartupGating ==
    LET messageSent ==
            \/ SentOfKind("UpdateTeamNumber") /= {}
            \/ SentOfKind("Capabilities") /= {}
            \/ emitted
        started ==
            \/ Executed("bind_keys")
            \/ inputStarted
            \/ tbPc /= "unstarted"
    IN  (messageSent \/ started) => HandshakesReceived

\* C1 witness: on linux, with both endpoints received, every component runs and
\* telemetry has been emitted.
StartupGatingWitness ==
    /\ linux /\ stdout_addr = Secondary(1) /\ addr = Primary(1)
    /\ SentOfKind("Capabilities") /= {}
    /\ inputStarted /\ emitted

\* C2: the relay endpoint held by State goes from absent to present at most once
\* and never changes afterwards, whatever is delivered on the handshake channel
\* later; State and every sender use the endpoint that was delivered first.
RelayEndpointBoundOnce ==
    /\ [](/\ relay_endpoint \in {NoEndpoint, Primary(1)}
          /\ addr \in {NoEndpoint, Primary(1)}
          /\ \A i \in 1 .. Len(sent) : sent[i].to = Primary(1)
          /\ telemetry /= NoMsg => telemetry.to = Primary(1))
    /\ [][relay_endpoint /= NoEndpoint => relay_endpoint' = relay_endpoint]_vars

\* C2 witness: a further endpoint was delivered, the bound endpoint is still the
\* first one and the telemetry thread has just sent to it.
RelayEndpointBoundOnceWitness ==
    /\ rxCount >= 2
    /\ relay_endpoint = Primary(1)
    /\ telemetry /= NoMsg /\ telemetry.to = Primary(1)

\* C3: the telemetry thread holds no guard, neither on State nor on JS_STATE,
\* when it sends the RobotStateUpdate and when it sleeps.
TelemetrySendsUnlocked ==
    tbPc \in {"send", "sleep"} =>
        /\ "telemetry" \notin readers
        /\ "telemetry" \notin jsReaders
        /\ writer /= "telemetry"

\* C3 witness: the telemetry thread is about to send while a command handler
\* holds the write guard on State.
TelemetrySendsUnlockedWitness ==
    /\ tbPc = "send" /\ msg.kind = "RobotStateUpdate"
    /\ writer = "ws"

CapabilitiesOnce ==
    LET caps == SentOfKind("Capabilities")
    IN  /\ Cardinality(caps) <= 1
        /\ \A i \in caps : /\ Executed("bind_keys")
                           /\ sent[i].m = Capabilities(keybindings_enabled)
        /\ Executed("send_caps") => Cardinality(caps) = 1
        /\ Executed("spawn_telemetry") => (inputStarted /\ tbPc /= "unstarted")

\* C5 witness: the installation failed, Capabilities{false} was sent and both the
\* input subsystem and the telemetry thread run.
CapabilitiesOnceWitness ==
    /\ ~keybindings_enabled
    /\ \E i \in SentOfKind("Capabilities") : sent[i].m = Capabilities(FALSE)
    /\ inputStarted /\ tbPc = "sleep"

\* C6: the RobotStateUpdate emitted in a cycle carries what DsEngine and
\* JS_STATE reported to that cycle's reads; with no device attached at the read,
\* joysticks is false.
TelemetryCarriesSnapshot ==
    tbPc = "sleep" =>
        /\ telemetry /= NoMsg
        /\ telemetry.m = [kind |-> "RobotStateUpdate",
                          comms_alive |-> seen.connected,
                          code_alive |-> seen.code_started,
                          simulator |-> (seen.mode = "Simulation"),
                          joysticks |-> (seen.devices /= {}),
                          voltage |-> seen.voltage]
        /\ seen.devices = {} => ~telemetry.m.joysticks

\* C6 witness: DsEngine reported connected, code not started, Simulation and
\* 12.1 V, no device is attached, and the update with these values was emitted.
TelemetryCarriesSnapshotWitness ==
    /\ tbPc = "sleep"
    /\ seen = [connected |-> TRUE, code_started |-> FALSE, mode |-> "Simulation",
               voltage |-> 121, devices |-> {}]
    /\ telemetry.m.comms_alive /\ ~telemetry.m.code_alive /\ telemetry.m.simulator
    /\ telemetry.m.voltage = 121 /\ ~telemetry.m.joysticks

\* C7: the start-up UpdateTeamNumber is sent only after update_ds has been
\* applied under the write guard and the guard has been released.
AnnouncedAfterUpdate ==
    SentOfKind("UpdateTeamNumber") /= {} =>
        /\ startupDs = <<persisted>>
        /\ writer /= "main"

\* C8: a cycle whose snapshot fails is skipped and the telemetry loop goes on:
\* as long as the lock on State is intact, a failure to read JS_STATE (not
\* available, or its lock not acquirable) never ends the telemetry thread.
FailedSnapshotSkipped ==
    ~poisoned => tbPc /= "panicked"

ShutdownPersistsTeam ==
    procState = "exited" => persisted = team

\* The statements of the telemetry loop that run inside the block of
\* main.rs:130-151, where the read guard `state` is alive.
TbGuardScope == {"ds_read", "js_get", "js_read", "has_joysticks", "voltage", "build"}

BlockedInRecv ==
    /\ Running
    /\ \/ mainPc = "recv_primary" /\ rxChan = <<>> /\ rxOpen
       \/ mainPc = "recv_secondary" /\ stdoutChan = <<>> /\ stdoutOpen

\* C12: a handshake that does not arrive blocks start-up, without a timeout: as
\* long as the endpoint has not been delivered and the channel is open, whatever
\* step the system takes leaves main() in its receive, sends no message, starts
\* no component and does not enter the event loop.
HandshakeBlocksStartup ==
    [][BlockedInRecv =>
          /\ mainVars' = mainVars
          /\ sent' = sent /\ telemetry' = telemetry
          /\ inputStarted' = inputStarted /\ jsInits' = jsInits
          /\ tbPc' = "unstarted"
          /\ relay_endpoint' = NoEndpoint]_vars

\* C12 witness: main() is blocked on the secondary channel while the webserver
\* side has moved on and applied a command.
HandshakeBlocksStartupWitness ==
    /\ BlockedInRecv /\ mainPc = "recv_secondary"
    /\ team /= 0

\* main() stands in a receive on a channel that is empty and whose sender has
\* been dropped: the primary or secondary handshake channel (main.rs:98, 102) or
\* the port channel of launch_webserver (ws.rs:66).
RecvOnClosed ==
    /\ Running
    /\ \/ mainPc = "recv_primary" /\ rxChan = <<>> /\ ~rxOpen
       \/ mainPc = "recv_secondary" /\ stdoutChan = <<>> /\ ~stdoutOpen
       \/ mainPc = "recv_port" /\ portChan = <<>> /\ srvPc = "panicked"

\* C13: a channel closed before it delivered ends the process: when the sender
\* was dropped without a send, the receive of main() can fail at once, and
\* whatever step is taken from there, main() runs no later start-up step,
\* nothing is sent or started, and the process either is still about to fail
\* or has ended.
ClosedChannelTerminates ==
    /\ [](RecvOnClosed =>
            ENABLED (MainRecvPrimaryClosed \/ MainRecvSecondaryClosed
                        \/ MainRecvPortClosed))
    /\ [][RecvOnClosed =>
            /\ mainVars' = mainVars /\ port' = port
            /\ sent' = sent /\ telemetry' = telemetry
            /\ inputStarted' = inputStarted /\ tbPc' = "unstarted"
            /\ relay_endpoint' = NoEndpoint
            /\ procState' = "aborted" \/ RecvOnClosed']_vars

\* C13 witness: the primary handshake channel was closed before it delivered,
\* the receive of main() failed and the process has ended.
ClosedChannelTerminatesWitness ==
    /\ procState = "aborted"
    /\ mainPc = "recv_primary" /\ ~rxOpen /\ rxCount = 0

\* C18: launch_webserver is a one-shot rendezvous on the port channel: the
\* server thread binds first and then sends the bound port once, before it
\* serves; the caller receives once and returns only after the bind succeeded,
\* with the port the server bound.
PortRendezvous ==
    /\ srvPc \in {"unspawned", "bind", "panicked"} =>
            /\ boundPort = NoPort /\ portChan = <<>> /\ port = NoPort
            /\ mainPc \in {"launch_webserver", "recv_port"}
    /\ srvPc = "send_port" =>
            /\ boundPort \in Ports /\ portChan = <<>> /\ port = NoPort
            /\ mainPc = "recv_port"
    /\ (srvPc = "run" /\ mainPc = "recv_port") => portChan = <<boundPort>>
    /\ mainPc = "build_windows" =>
            /\ srvPc = "run" /\ portChan = <<>>
            /\ port \in Ports /\ port = boundPort
    /\ Pos(mainPc) > Pos("build_windows") => (srvPc = "run" /\ portChan = <<>>)

\* C18 witness: launch_webserver has returned the port the server is bound to,
\* and the server is serving.
PortRendezvousWitness ==
    /\ mainPc = "build_windows" /\ srvPc = "run"
    /\ port \in Ports /\ port = boundPort

\* C14: a poisoned lock is fail-stop: once a thread has terminated while holding
\* the write guard on State, the process does not keep running with the
\* telemetry thread ended.
PoisonedLockFailStop ==
    ~(poisoned /\ Running /\ tbPc = "panicked")

\* The step in which the command handler calls update_ds, and the step in which
\* main() does (main.rs:113).
WsApplies == wsCall = NoCall /\ wsCall' /= NoCall
MainApplies == mainPc = "update_ds" /\ mainPc' = "bind_keys"

Rank(kind) ==
    CASE kind = "SetAddr" -> 1
      [] kind = "UpdateTeamNumber" -> 2
      [] kind = "Capabilities" -> 3
      [] kind = "RobotStateUpdate" -> 4

\* C19: the messages handed to the primary relay at start-up come in the order
\* SetAddr (on linux only, where the secondary relay exists, and then first),
\* UpdateTeamNumber (if any), Capabilities, each at most once; every
\* RobotStateUpdate comes after Capabilities, and none before it.
StartupMessageOrder ==
    /\ \A i \in 1 .. Len(sent) :
          /\ sent[i].to = addr /\ addr = Primary(1)
          /\ \A j \in 1 .. Len(sent) :
                i < j => Rank(sent[i].m.kind) < Rank(sent[j].m.kind)
    /\ SentOfKind("SetAddr") /= {} =>
          (linux /\ sent[1].m = SetAddr(stdout_addr))
    /\ (linux /\ sent /= <<>>) => sent[1].m.kind = "SetAddr"
    /\ (emitted \/ telemetry /= NoMsg \/ msg /= NoMsg) =>
          (sent /= <<>> /\ sent[Len(sent)].m.kind = "Capabilities")
    /\ telemetry /= NoMsg =>
          (telemetry.to = addr /\ Rank(telemetry.m.kind) = 4)

\* C19 witness: on linux with a persisted team number, the three start-up
\* messages were sent in order and a RobotStateUpdate follows them.
StartupMessageOrderWitness ==
    /\ Len(sent) = 3
    /\ sent[1].m.kind = "SetAddr" /\ sent[2].m.kind = "UpdateTeamNumber"
    /\ sent[3].m.kind = "Capabilities"
    /\ telemetry /= NoMsg

\* C20: a snapshot is atomic with respect to writers: the telemetry thread reads
\* the five fields while it holds one read guard on State without a break, so
\* between two reads of the same cycle no writer holds the lock and State does
\* not change; and while it holds the read guard the telemetry thread never
\* becomes a writer.
SnapshotAtomic ==
    /\ []((Running /\ tbPc \in TbGuardScope) =>
            ("telemetry" \in readers /\ writer = "none"))
    /\ [][(Running /\ tbPc \in TbGuardScope /\ tbPc' \in TbGuardScope) =>
            /\ "telemetry" \in readers'
            /\ team' = team /\ relay_endpoint' = relay_endpoint
            /\ wsCall' = NoCall]_vars
    /\ [][(tb' /= tb /\ tb' /= NoLocals) =>
            (tbPc \in TbGuardScope /\ "telemetry" \in readers
                /\ "telemetry" \in readers')]_vars
    /\ [][("telemetry" \in readers /\ Running') => writer' = "none"]_vars

\* C20 witness: the five fields have been read under the guard, which the
\* telemetry thread still holds, after a command changed the team number.
SnapshotAtomicWitness ==
    /\ tbPc = "build" /\ "telemetry" \in readers
    /\ tb /= NoLocals /\ team /= 0 /\ startupDs = <<>>

\* The statements of one iteration of the telemetry loop (main.rs:130-154), in
\* order: the snapshot ("state_read" to "build"), the emission ("send") and the
\* sleep; TbNextPc is the statement that follows in the loop.
TbCycle ==
    <<"state_read", "ds_read", "js_get", "js_read", "has_joysticks", "voltage",
      "build", "send", "sleep">>
TbNextPc(pc) ==
    LET i == CHOOSE k \in 1 .. Len(TbCycle) : TbCycle[k] = pc
    IN  TbCycle[(i % Len(TbCycle)) + 1]

\* The telemetry thread hands a RobotStateUpdate to do_send in this step.
Emits == tbPc = "send" /\ tbPc' /= "send" /\ telemetry' /= NoMsg

\* C17: the telemetry thread is a loop without an exit whose steps come in the
\* order Snapshot, Emit, Sleep: a step of the thread leads to the next statement
\* of the loop (or the thread fails, or the process ends); a RobotStateUpdate is
\* emitted by the Emit step only, once per cycle, and the step after it is the
\* sleep, so a sleep separates two emissions; and under fair scheduling, while
\* the process runs and no writer has terminated holding a lock, every cycle the
\* thread starts comes to its emission.
TelemetryLoop ==
    /\ [][tbPc' /= tbPc =>
            \/ tbPc = "unstarted" /\ tbPc' = "state_read"
            \/ tbPc \notin {"unstarted", "panicked", "ended"} /\ tbPc' = TbNextPc(tbPc)
            \/ tbPc' \in {"panicked", "ended"}]_vars
    /\ [][(telemetry' /= telemetry /\ telemetry' /= NoMsg) =>
            (Emits /\ telemetry = NoMsg /\ tbPc' = "sleep"
                /\ telemetry'.m.kind = "RobotStateUpdate")]_vars
    /\ [][(tbPc = "send" /\ tbPc' = "sleep") => Emits]_vars
    /\ [](tbPc = "sleep" <=> telemetry /= NoMsg)
    /\ (tbPc = "state_read")
            ~> (tbPc = "sleep" \/ ~Running \/ poisoned \/ jsPoisoned)

\* C17 witness: the telemetry thread is in its sleep after an emission, while a
\* command handler holds the write guard.
TelemetryLoopWitness ==
    /\ tbPc = "sleep" /\ telemetry /= NoMsg /\ emitted
    /\ writer = "ws"

====
